---------------------------- MODULE Spec2Model ----------------------------
(* A state-machine model of stitchVideos (src/services/videoProcessor.ts):  *)
(* the dual-slot playback loop, the recorder, the progress callback and     *)
(* the cleanup path.  Media time is counted in whole ticks; a percent value *)
(* p is stored as p * PctScale(N) so that every emitted value is an integer.*)
EXTENDS Integers, Sequences, FiniteSets, TLC

\* ------------------------------------------------------------------ bounds
\* longest scene list passed to stitchVideos
MaxScenes == 2
\* native duration, in ticks, of every generated clip
ClipDur == 2
\* granularity of the wall clock read by Date.now(), in milliseconds
ClockStep == 120

\* number of scenes of the project in the editor
GenScenes == 2
\* number of clicks on the "Generate Video" buttons of the scenes
MaxClicks == 2

\* ------------------------------------------------------ program constants
\* duration estimate: `s.duration_seconds || 8`
DefaultDurationSeconds == 8
\* drawSolo: `now - lastProgressUpdate > 100`
ThrottleMs == 100
\* the weight of the transition-preparation progress value, (i + 0.9), in tenths
TransTenths == 9

\* ------------------------------------------------------------------ inputs
\* Scene.transition undefined
NoTransition == [type |-> "undefined", duration |-> 0]

\* the transitions a scene may carry: none set, kind 'none', a fade of one tick
Transitions ==
  {NoTransition, [type |-> "none", duration |-> 1],
   [type |-> "fade", duration |-> 1]}

\* trimStart and trimEnd of a scene, in ticks
TrimValues == {0, 1}

\* scenes that pass the filter of stitchVideos: completed, with a video URL;
\* dur is the duration of the media behind videoUrl
PlayableScenes ==
  [status : {"completed"}, hasUrl : {TRUE}, dur : {ClipDur},
   trimStart : TrimValues, trimEnd : TrimValues, transition : Transitions]

\* scenes the filter drops: not completed, or completed without a video URL
OtherScenes ==
  {[status |-> "pending", hasUrl |-> TRUE, dur |-> ClipDur, trimStart |-> 0,
    trimEnd |-> 0, transition |-> NoTransition],
   [status |-> "completed", hasUrl |-> FALSE, dur |-> ClipDur, trimStart |-> 0,
    trimEnd |-> 0, transition |-> NoTransition]}

SceneInputs == PlayableScenes \cup OtherScenes

SceneLists == UNION {[1..n -> SceneInputs] : n \in 0..MaxScenes}

\* bgMusic undefined, or a BackgroundMusic with a url
MusicInputs == {"undefined", "track"}

\* timelines of playable scenes whose trims reach and pass the end of the
\* media and whose transitions outlast a clip: clips of two ticks, trimStart
\* up to three ticks, trimEnd up to two, a cut and fades of one and two ticks
TimingScenes ==
  [status : {"completed"}, hasUrl : {TRUE}, dur : {2},
   trimStart : 0..3, trimEnd : 0..2,
   transition : {[type |-> "none", duration |-> 1],
                 [type |-> "fade", duration |-> 1],
                 [type |-> "fade", duration |-> 2]}]

TimingLists == UNION {[1..n -> TimingScenes] : n \in 1..2}

\* an untrimmed, completed clip of eight ticks (seconds) with transition tr
EightSecondClip(tr) ==
  [status |-> "completed", hasUrl |-> TRUE, dur |-> 8, trimStart |-> 0,
   trimEnd |-> 0, transition |-> tr]

\* three such clips, the first with a fade of one second and the second
\* with kind none
FadeOnFirstClip ==
  <<EightSecondClip([type |-> "fade", duration |-> 1]),
    EightSecondClip([type |-> "none", duration |-> 1]),
    EightSecondClip(NoTransition)>>

\* three such clips, the second with a fade of one second and the third
\* with kind none
FadeOnSecondClip ==
  <<EightSecondClip(NoTransition),
    EightSecondClip([type |-> "fade", duration |-> 1]),
    EightSecondClip([type |-> "none", duration |-> 1])>>

\* the mime types stitchVideos may hand to the MediaRecorder, in the order
\* it tries them; the last one is the default it keeps when none of the
\* others is supported
CodecPreference ==
  <<"video/mp4", "video/webm;codecs=h264", "video/webm;codecs=vp9",
    "video/webm">>

CodecSet == {CodecPreference[k] : k \in 1..Len(CodecPreference)}

\* what MediaRecorder.isTypeSupported accepts on a host: nothing, only a
\* type stitchVideos never asks for, mp4 alone, webm with vp9, webm with
\* vp9 and h264, or everything
HostCodecs ==
  {{}, {"video/x-matroska"}, {"video/mp4"},
   {"video/webm", "video/webm;codecs=vp9"},
   {"video/webm", "video/webm;codecs=vp9", "video/webm;codecs=h264",
    "video/x-matroska"},
   CodecSet \cup {"video/x-matroska"}}

\* ExportFormat
ExportFormats == {"mp4", "mov"}

\* the names of the DOMExceptions a play() promise is rejected with: playback
\* is not allowed by the user agent, or the media is not supported
PlayErrors == {"NotAllowedError", "NotSupportedError"}

VARIABLES
  scenes,          \* argument scenes
  bgMusic,         \* argument bgMusic
  pc,              \* the suspension point stitchVideos is at
  validScenes,     \* const validScenes
  i,               \* loop variable i (0-based)
  activeSlotIndex, \* let activeSlotIndex
  slots,           \* const slots: the two VideoSlots and their media elements
  canvas,          \* "none" | "live" | "removed"
  audioCtx,        \* "none" | "running" | "closed"
  bgMusicEl,       \* "none" | "created" | "playing" | "paused", the removed
                   \* flag, and how often play() and pause() were called
  recorder,        \* MediaRecorder.state, "none" before construction
  stopPending,     \* the recorder's stop event is queued
  elapsed,         \* Date.now() - lastProgressUpdate, saturated
  lastPct,         \* last percent passed to onProgress (scaled), -1 if none
  log,             \* what the engine did during the last step, in order
  outcome,         \* "pending" | "resolved" | "rejected"
  errorMsg,        \* message of the Error the promise rejected with
  failure,         \* the originating cause of a failure
  originMsg,       \* message of the error that was first raised
  app              \* the editor: currentProject.scenes and the generation
                   \* requests in flight

vars == <<scenes, bgMusic, pc, validScenes, i, activeSlotIndex, slots, canvas,
          audioCtx, bgMusicEl, recorder, stopPending, elapsed, lastPct, log,
          outcome, errorMsg, failure, originMsg, app>>

\* the variables of stitchVideos
engineVars == <<scenes, bgMusic, pc, validScenes, i, activeSlotIndex, slots,
                canvas, audioCtx, bgMusicEl, recorder, stopPending, elapsed,
                lastPct, log, outcome, errorMsg, failure, originMsg>>


\* ----------------------------------------------------------------- helpers
\* the editor with no project open
NoApp ==
  [project |-> <<>>, calls |-> {}, succeeded |-> {}, clicks |-> 0,
   batch |-> [state |-> "idle", closure |-> <<>>, next |-> 1]]

\* Date.now() - lastProgressUpdate is kept exactly up to the throttle
\* threshold; every larger value is stored as ElapsedCap
ElapsedCap == ThrottleMs + 1

Min(a, b) == IF a <= b THEN a ELSE b

Max(a, b) == IF a >= b THEN a ELSE b

One == [n |-> 1, d |-> 1]

\* BackgroundMusic.volume of the track, 0.3 as a fraction
MusicVolume == [n |-> 3, d |-> 10]

\* let bgMusicEl: HTMLAudioElement | null = null; gain is the value of the
\* gain node the music is routed through, 1 until it is set
NoMusicEl ==
  [state |-> "none", removed |-> FALSE, plays |-> 0, pauses |-> 0,
   gain |-> One]

\* a VideoSlot that createSlot has not made yet
NoSlot ==
  [created |-> FALSE, src |-> 0, ready |-> "nothing", seeking |-> FALSE,
   seeked |-> FALSE, pos |-> 0, paused |-> TRUE, playPending |-> FALSE,
   played |-> FALSE, gain |-> One, connected |-> FALSE, removed |-> FALSE]

\* createSlot: a fresh video element, its source node wired to a gain node
\* and the gain node to the destination
createSlot == [NoSlot EXCEPT !.created = TRUE, !.connected = TRUE]

\* IsValidScene that looks at the status alone
IsValidScene_StatusOnly(s) == s.status = "completed"

\* scenes.filter(s => s.status === 'completed' && s.videoUrl)
IsValidScene(s) == s.status = "completed" /\ s.hasUrl

FilterScenes(sc) == SelectSeq(sc, IsValidScene)

\* the program state as one record, so that a chain of continuations that
\* runs without suspension is one step
Cur ==
  [pc |-> pc, validScenes |-> validScenes, i |-> i,
   activeSlotIndex |-> activeSlotIndex, slots |-> slots, canvas |-> canvas,
   audioCtx |-> audioCtx, bgMusicEl |-> bgMusicEl, recorder |-> recorder,
   stopPending |-> stopPending, elapsed |-> elapsed, lastPct |-> lastPct,
   log |-> <<>>, outcome |-> outcome, errorMsg |-> errorMsg,
   failure |-> failure, originMsg |-> originMsg]

Commit(S) ==
  /\ pc' = S.pc
  /\ validScenes' = S.validScenes
  /\ i' = S.i
  /\ activeSlotIndex' = S.activeSlotIndex
  /\ slots' = S.slots
  /\ canvas' = S.canvas
  /\ audioCtx' = S.audioCtx
  /\ bgMusicEl' = S.bgMusicEl
  /\ recorder' = S.recorder
  /\ stopPending' = S.stopPending
  /\ elapsed' = S.elapsed
  /\ lastPct' = S.lastPct
  /\ log' = S.log
  /\ outcome' = S.outcome
  /\ errorMsg' = S.errorMsg
  /\ failure' = S.failure
  /\ originMsg' = S.originMsg
  /\ UNCHANGED <<scenes, bgMusic, app>>

\* one entry of the log: the operation, its argument, and the state it saw
Emit(S, op, arg) ==
  [S EXCEPT !.log = Append(@, [op |-> op, arg |-> arg, i |-> S.i,
                               active |-> S.activeSlotIndex,
                               slots |-> S.slots, rec |-> S.recorder])]

\* bgMusicEl.play().catch(...): the call is counted, the element plays when
\* the user agent allows it
PlayMusic(S, musicOk) ==
  IF S.bgMusicEl.state = "none" THEN S
  ELSE [Emit(S, "music.play", 0)
          EXCEPT !.bgMusicEl = [@ EXCEPT !.plays = @ + 1,
                                         !.state = IF musicOk THEN "playing"
                                                   ELSE @]]

\* if (bgMusicEl) bgMusicEl.pause()
PauseMusic(S) ==
  IF S.bgMusicEl.state = "none" THEN S
  ELSE [Emit(S, "music.pause", 0)
          EXCEPT !.bgMusicEl = [@ EXCEPT !.pauses = @ + 1,
                                         !.state = IF @ = "playing" THEN "paused"
                                                   ELSE @]]

\* ------------------------------------------------------- loop-body locals
NumValid(S) == Len(S.validScenes)

\* validScenes[k], k 0-based as in the source
SceneAt(S, k) == S.validScenes[k + 1]

HasNext(S) == S.i + 1 < NumValid(S)

\* TransitionOf that reads the transition of the clip that is playing
TransitionOf_Outgoing(S) ==
  IF HasNext(S) THEN SceneAt(S, S.i).transition ELSE NoTransition

\* const transition = nextScene?.transition
TransitionOf(S) ==
  IF HasNext(S) THEN SceneAt(S, S.i + 1).transition ELSE NoTransition

\* transition?.type || 'none'
TransitionType(S) ==
  IF TransitionOf(S).type = "undefined" THEN "none" ELSE TransitionOf(S).type

\* (transitionType !== 'none' && transition?.duration) ? transition.duration : 0
TransitionDuration(S) ==
  IF TransitionType(S) # "none" /\ TransitionOf(S).duration # 0
  THEN TransitionOf(S).duration
  ELSE 0

\* video.duration of the media a slot holds
MediaDuration(S, slot) == S.validScenes[slot.src].dur

CurrentSlot(S) == S.slots[S.activeSlotIndex]

NextSlot(S) == S.slots[1 - S.activeSlotIndex]

\* const start = currentScene.trimStart || 0
StartOf(S) == SceneAt(S, S.i).trimStart

\* EndOf that ignores trimEnd
EndOf_IgnoresTrimEnd(S) == MediaDuration(S, CurrentSlot(S))

\* const end = Math.min(duration, duration - endTrim)
EndOf(S) ==
  Min(MediaDuration(S, CurrentSlot(S)),
      MediaDuration(S, CurrentSlot(S)) - SceneAt(S, S.i).trimEnd)

\* SoloEndTime that does not make room for the transition
SoloEndTime_IgnoresTransition(S) ==
  IF HasNext(S) THEN Max(StartOf(S), EndOf(S)) ELSE EndOf(S)

\* SoloEndTime without the lower limit of the clip's start
SoloEndTime_NoLowerLimit(S) ==
  IF HasNext(S) THEN EndOf(S) - TransitionDuration(S) ELSE EndOf(S)

\* const soloEndTime = hasNext ? Math.max(start, end - transitionDuration) : end
SoloEndTime(S) ==
  IF HasNext(S)
  THEN Max(StartOf(S), EndOf(S) - TransitionDuration(S))
  ELSE EndOf(S)

\* const nextStart = nextScene.trimStart || 0
NextStart(S) == SceneAt(S, S.i + 1).trimStart

\* ------------------------------------------------------ the media element
\* video.ended: playback has reached the end of the media
Ended(S, slot) ==
  slot.ready = "metadata" /\ slot.pos >= MediaDuration(S, slot)

\* SetSrc that binds the first clip of the timeline whatever the index
SetSrc_FirstClip(slot, k) ==
  [slot EXCEPT !.src = 1, !.ready = "loading", !.seeking = FALSE,
               !.seeked = FALSE, !.pos = 0, !.paused = TRUE,
               !.playPending = FALSE, !.played = FALSE]

\* video.src = url: the element starts loading the new resource
SetSrc(slot, k) ==
  [slot EXCEPT !.src = k, !.ready = "loading", !.seeking = FALSE,
               !.seeked = FALSE, !.pos = 0, !.paused = TRUE,
               !.playPending = FALSE, !.played = FALSE]

\* video.currentTime = t: the position is clamped to the media, a seek starts
SetCurrentTime(S, slot, t) ==
  [slot EXCEPT !.pos = Max(0, Min(t, MediaDuration(S, slot))),
               !.seeking = TRUE, !.seeked = FALSE]

\* video.play(): an element that has ended restarts from the beginning
Play(S, slot) ==
  [slot EXCEPT !.pos = IF Ended(S, slot) THEN 0 ELSE @,
               !.paused = FALSE, !.playPending = TRUE]

\* video.pause()
Pause(slot) == [slot EXCEPT !.paused = TRUE, !.playPending = FALSE]

\* ------------------------------------------------------- progress values
\* a percent value p is stored as p * PctScale(N): the values the source
\* computes are multiples of 100 / (10 * N)
PctScale(n) == 10 * n

\* SoloPct with the clip counted as completed while it is still playing
SoloPct_CountsCurrent(k, n) == 100 * 10 * (k + 1)

\* (i / validScenes.length) * 100
SoloPct(k, n) == 100 * 10 * k

\* TransPct that reports the clip as complete at the boundary
TransPct_WholeClip(k, n) == 100 * 10 * (k + 1)

\* (i + 0.9) / validScenes.length * 100
TransPct(k, n) == 100 * (10 * k + TransTenths)

\* onProgress(100, ...)
FinalPct(n) == 100 * PctScale(n)

onProgress(S, p) == Emit([S EXCEPT !.lastPct = p], "progress", p)

\* ------------------------------------------------------- exits of the call
\* finally { audioCtx.close(); slots.forEach(...); canvas.remove();
\*           if (bgMusicEl) bgMusicEl.remove(); }
Cleanup(S) ==
  [S EXCEPT !.audioCtx = "closed",
            !.slots = [k \in 0..1 |->
                         [S.slots[k] EXCEPT !.removed = TRUE,
                                            !.connected = FALSE]],
            !.canvas = "removed",
            !.bgMusicEl = IF @.state = "none" THEN @
                          ELSE [@ EXCEPT !.removed = TRUE]]

\* catch (error) { throw new Error("Stitching failed."); } finally { ... }
\* error is the message of the error that was caught
Fail(S, cause, error) ==
  Cleanup([S EXCEPT !.pc = "done", !.outcome = "rejected",
                    !.errorMsg = "Stitching failed.", !.failure = cause,
                    !.originMsg = error])

\* Finalize without the final onProgress(100)
Finalize_NoFinalProgress(S) ==
  LET S2 == Emit(S, "rec.stop", 0)
      S3 == PauseMusic([S2 EXCEPT !.recorder = "inactive",
                                  !.stopPending = TRUE])
  IN Cleanup([S3 EXCEPT !.pc = "await_stop"])

\* onProgress(100); recorder.stop(); if (bgMusicEl) bgMusicEl.pause();
\* return new Promise(resolve => recorder.onstop = ...): the finally block
\* runs as the try block returns, before the stop event is dispatched
Finalize(S) ==
  LET S1 == onProgress(S, FinalPct(NumValid(S)))
      S2 == Emit(S1, "rec.stop", 0)
      S3 == PauseMusic([S2 EXCEPT !.recorder = "inactive",
                                  !.stopPending = TRUE])
  IN Cleanup([S3 EXCEPT !.pc = "await_stop"])

\* AfterSolo that leaves the last clip playing
AfterSolo_LastKeepsPlaying(S) ==
  IF HasNext(S)
  THEN LET S1 == Emit(S, "rec.pause", 0)
           S2 == [S1 EXCEPT !.recorder = IF @ = "recording" THEN "paused" ELSE @]
           S3 == onProgress(S2, TransPct(S.i, NumValid(S)))
       IN [S3 EXCEPT !.slots[1 - S.activeSlotIndex] = SetSrc(@, S.i + 2),
                     !.pc = "await_next_load"]
  ELSE Finalize([S EXCEPT !.i = @ + 1])

\* AfterSolo without recorder.pause() before the standby slot is loaded
AfterSolo_NoPause(S) ==
  IF HasNext(S)
  THEN LET S3 == onProgress(S, TransPct(S.i, NumValid(S)))
       IN [S3 EXCEPT !.slots[1 - S.activeSlotIndex] = SetSrc(@, S.i + 2),
                     !.pc = "await_next_load"]
  ELSE Finalize([S EXCEPT !.slots[S.activeSlotIndex] = Pause(@),
                          !.i = @ + 1])

\* AfterSolo that stops the music together with the recorder while the
\* next clip loads
AfterSolo_PausesMusic(S) ==
  IF HasNext(S)
  THEN LET S1 == Emit(S, "rec.pause", 0)
           S2 == PauseMusic([S1 EXCEPT !.recorder = IF @ = "recording"
                                                    THEN "paused" ELSE @])
           S3 == onProgress(S2, TransPct(S.i, NumValid(S)))
       IN [S3 EXCEPT !.slots[1 - S.activeSlotIndex] = SetSrc(@, S.i + 2),
                     !.pc = "await_next_load"]
  ELSE Finalize([S EXCEPT !.slots[S.activeSlotIndex] = Pause(@),
                          !.i = @ + 1])

\* --------------------------------------------------------- the solo phase
\* after the solo promise resolves: lines 270-293 up to the first await, or
\* lines 380-396 for the last clip
AfterSolo(S) ==
  IF HasNext(S)
  THEN LET S1 == Emit(S, "rec.pause", 0)
           S2 == [S1 EXCEPT !.recorder = IF @ = "recording" THEN "paused" ELSE @]
           S3 == onProgress(S2, TransPct(S.i, NumValid(S)))
       IN [S3 EXCEPT !.slots[1 - S.activeSlotIndex] = SetSrc(@, S.i + 2),
                     !.pc = "await_next_load"]
  ELSE Finalize([S EXCEPT !.slots[S.activeSlotIndex] = Pause(@),
                          !.i = @ + 1])

\* DrawSoloStep that resolves one tick before soloEndTime
DrawSoloStep_EndsOneTickEarly(S) ==
  LET cur == CurrentSlot(S)
      T == Emit(S, "tick.solo", cur.pos)
  IN IF cur.paused \/ Ended(S, cur) \/ cur.pos + 1 >= SoloEndTime(S)
     THEN AfterSolo(T)
     ELSE LET D == Emit(T, "frame.solo", cur.pos)
              P == IF D.elapsed > ThrottleMs
                   THEN [onProgress(D, SoloPct(S.i, NumValid(S)))
                           EXCEPT !.elapsed = 0]
                   ELSE D
          IN [P EXCEPT !.pc = "solo"]

\* one call of drawSolo, and what follows it without suspension
DrawSoloStep(S) ==
  LET cur == CurrentSlot(S)
      T == Emit(S, "tick.solo", cur.pos)
  IN IF cur.paused \/ Ended(S, cur) \/ cur.pos >= SoloEndTime(S)
     THEN AfterSolo(T)
     ELSE LET D == Emit(T, "frame.solo", cur.pos)
              P == IF D.elapsed > ThrottleMs
                   THEN [onProgress(D, SoloPct(S.i, NumValid(S)))
                           EXCEPT !.elapsed = 0]
                   ELSE D
          IN [P EXCEPT !.pc = "solo"]

\* TransT without Math.max(0, ...)
TransT_NoLowerClamp(S) ==
  LET tCurrent == NextSlot(S).pos - NextStart(S)
      dur == TransitionDuration(S)
  IN IF dur = 0
     THEN [n |-> IF tCurrent >= 1 THEN 1 ELSE 0, d |-> 1]
     ELSE [n |-> Min(dur, tCurrent), d |-> dur]

\* --------------------------------------------------- the transition phase
\* t = Math.min(1, Math.max(0, tCurrent / (transitionDuration || 0.001))),
\* as a fraction n / d; positions are whole ticks, so with the 0.001 guard
\* t is 0 up to the seek target and 1 past it
TransT(S) ==
  LET tCurrent == NextSlot(S).pos - NextStart(S)
      dur == TransitionDuration(S)
  IN IF dur = 0
     THEN [n |-> IF tCurrent >= 1 THEN 1 ELSE 0, d |-> 1]
     ELSE [n |-> Min(dur, Max(0, tCurrent)), d |-> dur]

\* TransDone without the swap of the slots' roles
TransDone_NoSwap(S) ==
  LET a == S.activeSlotIndex
      S1 == Emit(S, "video.pause", a)
      S2 == Emit([S1 EXCEPT !.slots[a] = Pause(@)], "gain.reset", 0)
      S3 == Emit([S2 EXCEPT !.slots[a].gain = One,
                            !.slots[1 - a].gain = One], "swap", 0)
  IN DrawSoloStep([S3 EXCEPT !.i = @ + 1])

\* TransDone that resets the gain of the music together with the slots'
TransDone_ResetsMusicGain(S) ==
  LET a == S.activeSlotIndex
      S1 == Emit(S, "video.pause", a)
      S2 == Emit([S1 EXCEPT !.slots[a] = Pause(@)], "gain.reset", 0)
      S3 == Emit([S2 EXCEPT !.slots[a].gain = One,
                            !.slots[1 - a].gain = One,
                            !.bgMusicEl.gain = One], "swap", 0)
  IN DrawSoloStep([S3 EXCEPT !.activeSlotIndex = 1 - a, !.i = @ + 1])

\* TransDone that leaves the outgoing clip playing
TransDone_NoPause(S) ==
  LET a == S.activeSlotIndex
      S1 == Emit(S, "video.pause", a)
      S2 == Emit(S1, "gain.reset", 0)
      S3 == Emit([S2 EXCEPT !.slots[a].gain = One,
                            !.slots[1 - a].gain = One], "swap", 0)
  IN DrawSoloStep([S3 EXCEPT !.activeSlotIndex = 1 - a, !.i = @ + 1])

\* lines 371-379: the outgoing clip is paused, both gains are reset, the
\* slots swap roles; then the next iteration of the loop up to its first
\* await
TransDone(S) ==
  LET a == S.activeSlotIndex
      S1 == Emit(S, "video.pause", a)
      S2 == Emit([S1 EXCEPT !.slots[a] = Pause(@)], "gain.reset", 0)
      S3 == Emit([S2 EXCEPT !.slots[a].gain = One,
                            !.slots[1 - a].gain = One], "swap", 0)
  IN DrawSoloStep([S3 EXCEPT !.activeSlotIndex = 1 - a, !.i = @ + 1])

\* width and height of the canvas for the four pairs of resolution and
\* aspect ratio
CanvasSizes ==
  {[width |-> 1920, height |-> 1080], [width |-> 1280, height |-> 720],
   [width |-> 1080, height |-> 1920], [width |-> 720, height |-> 1280]}

\* ClipPath with the wipe to the left starting from the left edge
ClipPath_FromLeftEdge(effect, t, c) ==
  IF effect = "wipe_left"
  THEN <<[x |-> [n |-> 0, d |-> 1], y |-> 0,
          w |-> [n |-> c.width * (t.d - t.n), d |-> t.d], h |-> c.height]>>
  ELSE IF effect = "wipe_right"
  THEN <<[x |-> [n |-> 0, d |-> 1], y |-> 0,
          w |-> [n |-> c.width * t.n, d |-> t.d], h |-> c.height]>>
  ELSE <<>>

\* the rectangles given to ctx.rect before ctx.clip() and the drawing of the
\* incoming clip, on a canvas of size c; x and w are fractions:
\* wipe_left  ctx.rect(width * (1 - t), 0, width, height)
\* wipe_right ctx.rect(0, 0, width * t, height)
\* no other effect clips
ClipPath(effect, t, c) ==
  IF effect = "wipe_left"
  THEN <<[x |-> [n |-> c.width * (t.d - t.n), d |-> t.d], y |-> 0,
          w |-> [n |-> c.width, d |-> 1], h |-> c.height]>>
  ELSE IF effect = "wipe_right"
  THEN <<[x |-> [n |-> 0, d |-> 1], y |-> 0,
          w |-> [n |-> c.width * t.n, d |-> t.d], h |-> c.height]>>
  ELSE <<>>

\* the slots drawScaled is called with in one frame of a transition: the
\* five effects draw the current slot and then the next one, the final else
\* branch draws the next slot alone
DrawnSlots(effect) ==
  IF effect \in {"fade", "wipe_left", "wipe_right", "slide_left",
                 "slide_right"}
  THEN <<"current", "next">>
  ELSE <<"next">>

\* what one frame of a transition is drawn with: t, the effect, and the
\* clip path of the incoming clip for each size of canvas
TransFrame(S, t) ==
  [t |-> t, effect |-> TransitionType(S),
   drawn |-> DrawnSlots(TransitionType(S)),
   clip |-> [c \in CanvasSizes |-> ClipPath(TransitionType(S), t, c)]]

\* DrawTransStep with the two gains exchanged
DrawTransStep_GainsExchanged(S) ==
  LET t == TransT(S)
      a == S.activeSlotIndex
      T == Emit(S, "tick.trans", t)
  IN IF t.n >= t.d
     THEN TransDone(T)
     ELSE LET G == [T EXCEPT !.slots[a].gain = t,
                             !.slots[1 - a].gain =
                                [n |-> t.d - t.n, d |-> t.d]]
          IN [Emit(G, "frame.trans", TransFrame(S, t))
                EXCEPT !.pc = "trans"]

\* one call of drawTrans, and what follows it without suspension; a frame
\* is drawn with the visual effect of transitionType
DrawTransStep(S) ==
  LET t == TransT(S)
      a == S.activeSlotIndex
      T == Emit(S, "tick.trans", t)
  IN IF t.n >= t.d
     THEN TransDone(T)
     ELSE LET G == [T EXCEPT !.slots[a].gain = [n |-> t.d - t.n, d |-> t.d],
                             !.slots[1 - a].gain = t]
          IN [Emit(G, "frame.trans", TransFrame(S, t))
                EXCEPT !.pc = "trans"]

\* ResumeTrans without recorder.resume()
ResumeTrans_NoResume(S) == DrawTransStep(S)

\* recorder.resume(), then the first call of drawTrans
ResumeTrans(S) ==
  LET S1 == Emit(S, "rec.resume", 0)
  IN DrawTransStep([S1 EXCEPT !.recorder = IF @ = "paused" THEN "recording"
                                           ELSE @])

\* after `await nextSlot.video.play()`:
\* if (currentSlot.video.paused) await currentSlot.video.play();
AfterNextPlay(S) ==
  IF CurrentSlot(S).paused
  THEN [S EXCEPT !.slots[S.activeSlotIndex] = Play(S, @),
                 !.pc = "await_cur_play"]
  ELSE ResumeTrans(S)

\* BeginStep with the canvas created before the timeline is checked
BeginStep_CanvasFirst(S, sc, bgm, ctxOk) ==
  LET valid == FilterScenes(sc)
      V == [S EXCEPT !.validScenes = valid, !.canvas = "live"]
  IN IF Len(valid) = 0
     THEN [V EXCEPT !.pc = "done", !.outcome = "rejected",
                    !.errorMsg = "No completed videos to stitch.",
                    !.originMsg = "No completed videos to stitch.",
                    !.failure = "empty"]
     ELSE IF ~ctxOk
     THEN [V EXCEPT !.pc = "done", !.outcome = "rejected",
                    !.errorMsg = "Could not get canvas context",
                    !.originMsg = "Could not get canvas context",
                    !.failure = "canvas"]
     ELSE [V EXCEPT !.audioCtx = "running",
                    !.slots = [k \in 0..1 |-> createSlot],
                    !.bgMusicEl = IF bgm = "track"
                                  THEN [NoMusicEl EXCEPT !.state = "created",
                                                         !.gain = MusicVolume]
                                  ELSE @,
                    !.log = IF bgm = "track"
                            THEN <<[op |-> "music.gain", arg |-> MusicVolume,
                                    i |-> V.i, active |-> V.activeSlotIndex,
                                    slots |-> [k \in 0..1 |-> createSlot],
                                    rec |-> V.recorder]>>
                            ELSE @,
                    !.pc = IF bgm = "track" THEN "preload" ELSE "recorder"]

\* ------------------------------------------------------------------ setup
\* lines 75-148: the filter, the canvas, the audio context, the two slots
\* and the background-music element; ctxOk is whether getContext('2d')
\* returned a context
BeginStep(S, sc, bgm, ctxOk) ==
  LET valid == FilterScenes(sc)
      V == [S EXCEPT !.validScenes = valid]
  IN IF Len(valid) = 0
     THEN [V EXCEPT !.pc = "done", !.outcome = "rejected",
                    !.errorMsg = "No completed videos to stitch.",
                    !.originMsg = "No completed videos to stitch.",
                    !.failure = "empty"]
     ELSE IF ~ctxOk
     THEN [V EXCEPT !.canvas = "live", !.pc = "done",
                    !.outcome = "rejected",
                    !.errorMsg = "Could not get canvas context",
                    !.originMsg = "Could not get canvas context",
                    !.failure = "canvas"]
     ELSE [V EXCEPT !.canvas = "live", !.audioCtx = "running",
                    !.slots = [k \in 0..1 |-> createSlot],
                    !.bgMusicEl = IF bgm = "track"
                                  THEN [NoMusicEl EXCEPT !.state = "created",
                                                         !.gain = MusicVolume]
                                  ELSE @,
                    !.log = IF bgm = "track"
                            THEN <<[op |-> "music.gain", arg |-> MusicVolume,
                                    i |-> V.i, active |-> V.activeSlotIndex,
                                    slots |-> [k \in 0..1 |-> createSlot],
                                    rec |-> V.recorder]>>
                            ELSE @,
                    !.pc = IF bgm = "track" THEN "preload" ELSE "recorder"]

\* lines 151-160: let mimeType = 'video/webm'; for mp4 and mov the first
\* supported of video/mp4, webm with h264 and webm with vp9 replaces it
SelectMimeType(format, supported) ==
  IF format \in {"mp4", "mov"}
  THEN IF CodecPreference[1] \in supported THEN CodecPreference[1]
       ELSE IF CodecPreference[2] \in supported THEN CodecPreference[2]
       ELSE IF CodecPreference[3] \in supported THEN CodecPreference[3]
       ELSE CodecPreference[4]
  ELSE CodecPreference[4]

\* RecorderStep with the first clip bound to its slot before the recorder
\* is constructed
RecorderStep_LoadsBeforeRecorder(S, format, supported, musicOk) ==
  LET mimeType == SelectMimeType(format, supported)
      S0 == Emit([S EXCEPT !.slots[0] = SetSrc(@, 1)], "rec.new",
                 [supported |-> supported, mimeType |-> mimeType])
  IN IF mimeType \notin supported
     THEN [S0 EXCEPT !.pc = "done", !.outcome = "rejected",
                     !.errorMsg = "NotSupportedError",
                     !.originMsg = "NotSupportedError",
                     !.failure = "recorder"]
     ELSE LET S1 == Emit([S0 EXCEPT !.recorder = "inactive"], "rec.start", 0)
              S2 == PlayMusic([S1 EXCEPT !.recorder = "recording",
                                         !.activeSlotIndex = 0], musicOk)
              S3 == onProgress(S2, 0)
          IN [S3 EXCEPT !.pc = "await_first_load"]

\* lines 150-191: the mime type is selected, the recorder is constructed
\* (the constructor throws NotSupportedError for a mime type the host does
\* not support) and started, the music is started, the first progress value
\* is reported and the first clip is bound to slot 0; supported is what the
\* host can record, musicOk whether bgMusicEl.play() was allowed
RecorderStep(S, format, supported, musicOk) ==
  LET mimeType == SelectMimeType(format, supported)
      S0 == Emit(S, "rec.new",
                 [supported |-> supported, mimeType |-> mimeType])
  IN
  IF mimeType \notin supported
  THEN [S0 EXCEPT !.pc = "done", !.outcome = "rejected",
                  !.errorMsg = "NotSupportedError",
                  !.originMsg = "NotSupportedError", !.failure = "recorder"]
  ELSE LET S1 == Emit([S0 EXCEPT !.recorder = "inactive"], "rec.start", 0)
           S2 == PlayMusic([S1 EXCEPT !.recorder = "recording",
                                      !.activeSlotIndex = 0], musicOk)
           S3 == onProgress(S2, 0)
       IN [S3 EXCEPT !.slots[0] = SetSrc(@, 1), !.pc = "await_first_load"]

\* AfterLoaded that starts the first clip without awaiting its seek
AfterLoaded_FirstPlaysUnseeked(S) ==
  IF S.pc = "await_first_load"
  THEN [S EXCEPT !.slots[S.activeSlotIndex] =
                    Play(S, SetCurrentTime(S, @, StartOf(S))),
                 !.pc = "await_first_play"]
  ELSE [S EXCEPT !.slots[1 - S.activeSlotIndex] =
                    SetCurrentTime(S, @, NextStart(S)),
                 !.pc = "await_next_seek"]

\* AfterLoaded that starts the standby clip without awaiting its seek
AfterLoaded_NextPlaysUnseeked(S) ==
  IF S.pc = "await_first_load"
  THEN [S EXCEPT !.slots[S.activeSlotIndex] = SetCurrentTime(S, @, StartOf(S)),
                 !.pc = "await_first_seek"]
  ELSE [S EXCEPT !.slots[1 - S.activeSlotIndex] =
                    Play(S, SetCurrentTime(S, @, NextStart(S))),
                 !.pc = "await_next_play"]

\* ------------------------------------------- continuations of awaited events
\* after `await waitForEvent(video, 'loadedmetadata')`
AfterLoaded(S) ==
  IF S.pc = "await_first_load"
  THEN [S EXCEPT !.slots[S.activeSlotIndex] = SetCurrentTime(S, @, StartOf(S)),
                 !.pc = "await_first_seek"]
  ELSE [S EXCEPT !.slots[1 - S.activeSlotIndex] =
                    SetCurrentTime(S, @, NextStart(S)),
                 !.pc = "await_next_seek"]

\* after `await waitForEvent(video, 'seeked')`
AfterSeeked(S) ==
  IF S.pc = "await_first_seek"
  THEN [S EXCEPT !.slots[S.activeSlotIndex] = Play(S, @),
                 !.pc = "await_first_play"]
  ELSE [S EXCEPT !.slots[1 - S.activeSlotIndex] = Play(S, @),
                 !.pc = "await_next_play"]

\* after an awaited play() promise is fulfilled
AfterPlay(S) ==
  IF S.pc = "await_first_play" THEN DrawSoloStep(S)
  ELSE IF S.pc = "await_next_play" THEN AfterNextPlay(S)
  ELSE ResumeTrans(S)

\* the slot whose event the call is suspended on, -1 if none
AwaitedSlot(S) ==
  IF S.pc \in {"await_first_load", "await_first_seek", "await_first_play",
               "await_cur_play"}
  THEN S.activeSlotIndex
  ELSE IF S.pc \in {"await_next_load", "await_next_seek", "await_next_play"}
  THEN 1 - S.activeSlotIndex
  ELSE -1

AwaitsLoad(S) == S.pc \in {"await_first_load", "await_next_load"}

AwaitsSeek(S) == S.pc \in {"await_first_seek", "await_next_seek"}

AwaitsPlay(S) ==
  S.pc \in {"await_first_play", "await_next_play", "await_cur_play"}

\* ----------------------------------------------------------------- actions
Init ==
  /\ scenes \in SceneLists
  /\ bgMusic \in MusicInputs
  /\ pc = "start"
  /\ validScenes = <<>>
  /\ i = 0
  /\ activeSlotIndex = 0
  /\ slots = [k \in 0..1 |-> NoSlot]
  /\ canvas = "none"
  /\ audioCtx = "none"
  /\ bgMusicEl = NoMusicEl
  /\ recorder = "none"
  /\ stopPending = FALSE
  /\ elapsed = ElapsedCap
  /\ lastPct = -1
  /\ log = <<>>
  /\ outcome = "pending"
  /\ errorMsg = ""
  /\ failure = "none"
  /\ originMsg = ""
  /\ app = NoApp

\* stitchVideos is called
Begin ==
  /\ pc = "start"
  /\ \E ctxOk \in BOOLEAN : Commit(BeginStep(Cur, scenes, bgMusic, ctxOk))

\* the music preload promise resolves (canplaythrough, error or the timeout)
PreloadDone ==
  /\ pc = "preload"
  /\ Commit([Cur EXCEPT !.pc = "recorder"])

SetupRecorder ==
  /\ pc = "recorder"
  /\ \E format \in ExportFormats, supported \in HostCodecs,
        musicOk \in BOOLEAN :
       Commit(RecorderStep(Cur, format, supported, musicOk))

\* the media element of slot s fires loadedmetadata
LoadedMetadata(s) ==
  /\ slots[s].ready = "loading"
  /\ LET S == [Cur EXCEPT !.slots[s].ready = "metadata"]
     IN Commit(IF AwaitsLoad(S) /\ AwaitedSlot(S) = s THEN AfterLoaded(S) ELSE S)

\* the media element of slot s fires seeked
Seeked(s) ==
  /\ slots[s].seeking
  /\ LET S == [Cur EXCEPT !.slots[s].seeking = FALSE, !.slots[s].seeked = TRUE]
     IN Commit(IF AwaitsSeek(S) /\ AwaitedSlot(S) = s THEN AfterSeeked(S) ELSE S)

\* the media element of slot s fires error while loading or seeking:
\* waitForEvent listens for the one event it was given, nothing resumes
MediaError(s) ==
  /\ slots[s].ready = "loading" \/ slots[s].seeking
  /\ Commit([Cur EXCEPT !.slots[s].ready = "error",
                        !.slots[s].seeking = FALSE,
                        !.failure = IF slots[s].seeking THEN "seek" ELSE "load",
                        !.originMsg = "MediaError"])

\* the play() promise of slot s is fulfilled
PlayResolved(s) ==
  /\ slots[s].playPending
  /\ LET S == [Cur EXCEPT !.slots[s].playPending = FALSE,
                          !.slots[s].played = TRUE]
     IN Commit(IF AwaitsPlay(S) /\ AwaitedSlot(S) = s THEN AfterPlay(S) ELSE S)

\* the play() promise of slot s is rejected with a DOMException named err:
\* the catch block, then finally
PlayRejected(s) ==
  /\ slots[s].playPending
  /\ AwaitsPlay(Cur) /\ AwaitedSlot(Cur) = s
  /\ \E err \in PlayErrors :
       Commit(Fail([Cur EXCEPT !.slots[s] = Pause(@)], "play", err))

\* a requestAnimationFrame callback of the solo loop
DrawSolo ==
  /\ pc = "solo"
  /\ Commit(DrawSoloStep(Cur))

\* a requestAnimationFrame callback of the transition loop
DrawTrans ==
  /\ pc = "trans"
  /\ Commit(DrawTransStep(Cur))

\* the recorder fires stop: recorder.onstop resolves the returned promise
RecorderStopped ==
  /\ stopPending
  /\ Commit([Cur EXCEPT !.stopPending = FALSE,
                        !.outcome = IF pc = "await_stop" THEN "resolved" ELSE @,
                        !.pc = IF pc = "await_stop" THEN "done" ELSE @])

\* playback of slot s advances by one tick; at the end of the media the
\* element ends playback and becomes paused
Advance(s) ==
  /\ slots[s].ready = "metadata"
  /\ ~slots[s].paused /\ ~slots[s].playPending /\ ~slots[s].seeking
  /\ ~Ended(Cur, slots[s])
  /\ LET S == [Cur EXCEPT !.slots[s].pos = @ + 1]
     IN Commit([S EXCEPT !.slots[s].paused = Ended(S, S.slots[s])])

\* wall-clock time passes
ClockTick ==
  /\ pc \notin {"start", "done"}
  /\ elapsed <= ThrottleMs
  /\ Commit([Cur EXCEPT !.elapsed = Min(@ + ClockStep, ElapsedCap)])

Next ==
  \/ Begin
  \/ PreloadDone
  \/ SetupRecorder
  \/ \E s \in 0..1 : LoadedMetadata(s)
  \/ \E s \in 0..1 : Seeked(s)
  \/ \E s \in 0..1 : MediaError(s)
  \/ \E s \in 0..1 : PlayResolved(s)
  \/ \E s \in 0..1 : PlayRejected(s)
  \/ DrawSolo
  \/ DrawTrans
  \/ RecorderStopped
  \/ \E s \in 0..1 : Advance(s)
  \/ ClockTick

Spec == Init /\ [][Next]_vars

\* stitchVideos on the timelines of TimingLists
TimingInit ==
  /\ scenes \in TimingLists
  /\ bgMusic \in MusicInputs
  /\ pc = "start"
  /\ validScenes = <<>>
  /\ i = 0
  /\ activeSlotIndex = 0
  /\ slots = [k \in 0..1 |-> NoSlot]
  /\ canvas = "none"
  /\ audioCtx = "none"
  /\ bgMusicEl = NoMusicEl
  /\ recorder = "none"
  /\ stopPending = FALSE
  /\ elapsed = ElapsedCap
  /\ lastPct = -1
  /\ log = <<>>
  /\ outcome = "pending"
  /\ errorMsg = ""
  /\ failure = "none"
  /\ originMsg = ""
  /\ app = NoApp

TimingSpec == TimingInit /\ [][Next]_vars

\* stitchVideos on the two timelines of three eight-second clips
\* two such clips joined by a wipe of four seconds, to the left and to the
\* right
WipeLeftClips == <<EightSecondClip(NoTransition),
                   EightSecondClip([type |-> "wipe_left", duration |-> 4])>>

WipeRightClips == <<EightSecondClip(NoTransition),
                    EightSecondClip([type |-> "wipe_right", duration |-> 4])>>

\* two such clips, the second with a kind that is not a TransitionType and a
\* duration of one second
UnrecognizedKindClips ==
  <<EightSecondClip(NoTransition),
    EightSecondClip([type |-> "dissolve", duration |-> 1])>>

\* two such clips joined by a fade of two seconds, both with a trimStart of
\* -1, and the same with a trimEnd of -1
NegativeTrimStartClips ==
  <<[EightSecondClip(NoTransition) EXCEPT !.trimStart = -1],
    [EightSecondClip([type |-> "fade", duration |-> 2])
       EXCEPT !.trimStart = -1]>>

NegativeTrimEndClips ==
  <<[EightSecondClip(NoTransition) EXCEPT !.trimEnd = -1],
    [EightSecondClip([type |-> "fade", duration |-> 2])
       EXCEPT !.trimEnd = -1]>>

\* two such clips joined by a fade of three seconds, the second trimmed to
\* its last two seconds
ShortIncomingClips ==
  <<EightSecondClip(NoTransition),
    [EightSecondClip([type |-> "fade", duration |-> 3])
       EXCEPT !.trimStart = 6]>>

ScenarioInit ==
  /\ scenes \in {FadeOnFirstClip, FadeOnSecondClip, WipeLeftClips,
                 WipeRightClips, UnrecognizedKindClips,
                 NegativeTrimStartClips, NegativeTrimEndClips,
                 ShortIncomingClips}
  /\ bgMusic \in MusicInputs
  /\ pc = "start"
  /\ validScenes = <<>>
  /\ i = 0
  /\ activeSlotIndex = 0
  /\ slots = [k \in 0..1 |-> NoSlot]
  /\ canvas = "none"
  /\ audioCtx = "none"
  /\ bgMusicEl = NoMusicEl
  /\ recorder = "none"
  /\ stopPending = FALSE
  /\ elapsed = ElapsedCap
  /\ lastPct = -1
  /\ log = <<>>
  /\ outcome = "pending"
  /\ errorMsg = ""
  /\ failure = "none"
  /\ originMsg = ""
  /\ app = NoApp

ScenarioSpec == ScenarioInit /\ [][Next]_vars

\* the event loop runs every callback that is ready, media that can load,
\* seek or play does so, and time passes; nothing obliges a media element to
\* fail or a play() promise to be rejected
FairSpec ==
  /\ Spec
  /\ WF_vars(Begin)
  /\ WF_vars(PreloadDone)
  /\ WF_vars(SetupRecorder)
  /\ \A s \in 0..1 : WF_vars(LoadedMetadata(s))
  /\ \A s \in 0..1 : WF_vars(Seeked(s))
  /\ \A s \in 0..1 : WF_vars(PlayResolved(s))
  /\ WF_vars(DrawSolo)
  /\ WF_vars(DrawTrans)
  /\ WF_vars(RecorderStopped)
  /\ \A s \in 0..1 : WF_vars(Advance(s))
  /\ WF_vars(ClockTick)

\* ------------------------------------------------------------ properties
\* the percent values passed to onProgress during the last step, in order
ProgressValues(l) ==
  LET ps == SelectSeq(l, LAMBDA e : e.op = "progress")
  IN [k \in 1..Len(ps) |-> ps[k].arg]

NonDecreasingFrom(prev, vals) ==
  \A k \in 1..Len(vals) : vals[k] >= (IF k = 1 THEN prev ELSE vals[k - 1])

HasOp(l, op) == \E k \in 1..Len(l) : l[k].op = op

\* stitchVideos has returned or thrown: its try/finally has been left
Exited == pc \in {"done", "await_stop"}

NothingAllocated ==
  /\ canvas = "none"
  /\ audioCtx = "none"
  /\ \A k \in 0..1 : ~slots[k].created
  /\ bgMusicEl.state = "none"
  /\ recorder = "none"

\* C1: when no input scene is completed with a video URL, stitchVideos
\* rejects, and no canvas, audio context, slot, music element or recorder
\* has been created at any point of the call.
C1_EmptyTimelineFailsBeforeAllocation ==
  Len(FilterScenes(scenes)) = 0 =>
    /\ NothingAllocated
    /\ pc # "start" => (pc = "done" /\ outcome = "rejected" /\ failure = "empty")

C1_Witness ==
  /\ Len(scenes) = MaxScenes
  /\ Len(FilterScenes(scenes)) = 0
  /\ outcome = "rejected"

\* C2: every percent value passed to onProgress is at least the value passed
\* before it, within one step and from one step to the next.
C2_ProgressNonDecreasing ==
  [][NonDecreasingFrom(lastPct, ProgressValues(log'))]_vars

\* the solo phase of the second clip reports progress after the values of
\* the first clip and of the transition preparation
C2_Witness ==
  /\ i = 1
  /\ pc = "solo"
  /\ ProgressValues(log) # <<>>
  /\ lastPct = 100 * 10

\* C3: when the promise resolves with an artifact the last value passed to
\* onProgress is 100, and once 100 has been passed no value is passed again.
C3_FinalProgressIs100 ==
  [][/\ outcome' = "resolved" => lastPct' = 100 * 10 * Len(validScenes')
     /\ (Len(validScenes) > 0 /\ lastPct = 100 * 10 * Len(validScenes))
          => ProgressValues(log') = <<>>]_vars

C3_Witness ==
  /\ outcome = "resolved"
  /\ Len(validScenes) = MaxScenes
  /\ lastPct = 100 * 10 * MaxScenes

\* C4: a slot starts playing only when its metadata has loaded and its seek
\* has completed; a seek starts only on loaded media; and the first start of
\* a clip is at the clip's trimStart.
C4_LoadSeekBeforePlay ==
  [][\A s \in 0..1 :
       /\ (slots[s].paused /\ ~slots'[s].paused) =>
            /\ slots'[s].ready = "metadata"
            /\ slots'[s].seeked /\ ~slots'[s].seeking
            /\ ~slots[s].played =>
                 slots'[s].pos = validScenes'[slots'[s].src].trimStart
       /\ (~slots[s].seeking /\ slots'[s].seeking) =>
            slots'[s].ready = "metadata"]_vars

\* the second clip is playing in the standby slot while the first clip is
\* still the active one
C4_Witness ==
  /\ i = 0
  /\ slots[1 - activeSlotIndex].src = 2
  /\ slots[1 - activeSlotIndex].played
  /\ ~slots[1 - activeSlotIndex].paused
  /\ slots[activeSlotIndex].played

\* C5: at every call of drawTrans the standby slot holds the next clip with
\* its metadata loaded and its seek completed.
C5_TransitionAfterStandbyReady ==
  \A k \in 1..Len(log) :
    log[k].op = "tick.trans" =>
      LET nx == log[k].slots[1 - log[k].active]
      IN /\ nx.src = log[k].i + 2
         /\ nx.ready = "metadata"
         /\ nx.seeked /\ ~nx.seeking

C5_Witness ==
  \E k \in 1..Len(log) : log[k].op = "tick.trans" /\ log[k].i = 0

C7_Original ==
  \A s \in 0..1 :
    (slots[s].ready = "loading" \/ slots[s].seeking) => recorder # "recording"

\* C8: a failed load, seek or play step makes stitchVideos reject; an
\* artifact is returned only when no step failed and every clip of the
\* timeline was processed.
C8_Original ==
  /\ failure \in {"load", "seek", "play"} => outcome = "rejected"
  /\ outcome = "resolved" => (failure = "none" /\ i = Len(validScenes))

\* stitchVideos is suspended on an event of a media element that has failed
SuspendedOnFailedMedia ==
  /\ AwaitsLoad(Cur) \/ AwaitsSeek(Cur)
  /\ slots[AwaitedSlot(Cur)].ready = "error"

\* C8, the code's behaviour after a failed load or seek: the call stays
\* suspended at the same await for ever, its promise pending.
C8_SuspendedForever ==
  [][SuspendedOnFailedMedia =>
       (SuspendedOnFailedMedia' /\ pc' = pc /\ outcome' = "pending")]_vars

\* C9: once stitchVideos has exited, nothing it allocated is left: the canvas
\* is removed, the audio context closed, the slots' nodes disconnected and
\* their media elements removed.
C9_Original ==
  Exited =>
    /\ canvas # "live"
    /\ audioCtx # "running"
    /\ \A k \in 0..1 :
         slots[k].created => (slots[k].removed /\ ~slots[k].connected)

\* C10: once stitchVideos has exited, the recorder is neither recording nor
\* paused and the background music is not playing.
C10_Original ==
  Exited =>
    /\ recorder \notin {"recording", "paused"}
    /\ bgMusicEl.state # "playing"


\* C11 (as stated): when a stitch fails, the failure surfaced to the caller
\* carries the detail of the originating error, so that runs failing for
\* different causes are told apart: the message of the rejection is the
\* message of the error that was first raised
C11_Original ==
  outcome = "rejected" => errorMsg = originMsg


\* C12 (as stated): if the metadata-ready or the seek-complete event that
\* stitchVideos awaits never arrives because the media element has failed,
\* the call eventually ends in a failure instead of waiting for ever.
C12_Original ==
  SuspendedOnFailedMedia ~> (outcome = "rejected")


\* C13: when the host supports none of the mime types of the preference
\* list, stitchVideos fails with NotSupportedError in the step that selects
\* the mime type: the recorder was never constructed or started and no clip
\* was bound to a slot.
C13_NoCodecFailsBeforeStart ==
  \A k \in 1..Len(log) :
    (log[k].op = "rec.new" /\ log[k].arg.supported \cap CodecSet = {}) =>
      /\ pc = "done"
      /\ outcome = "rejected"
      /\ errorMsg = "NotSupportedError"
      /\ recorder = "none"
      /\ ~HasOp(log, "rec.start")
      /\ \A s \in 0..1 : slots[s].src = 0 /\ slots[s].ready = "nothing"

C13_Witness ==
  /\ outcome = "rejected"
  /\ failure = "recorder"
  /\ \E k \in 1..Len(log) :
       /\ log[k].op = "rec.new"
       /\ log[k].arg.supported = {"video/x-matroska"}


\* the transition kind and duration a scene is configured with: a scene
\* without a transition, or with kind none, has kind none and duration 0
ConfiguredKind(sc) ==
  IF sc.transition.type = "undefined" THEN "none" ELSE sc.transition.type

ConfiguredDuration(sc) ==
  IF ConfiguredKind(sc) = "none" THEN 0 ELSE sc.transition.duration

\* what the last step shows of the transition used at the boundary after
\* clip k (0-based), were conf the scene that configures it: the frames of
\* the transition are drawn with conf's kind over conf's duration, and the
\* solo phase of clip k renders up to, and gives way at, the end of the
\* clip less conf's duration
BoundaryUses(e, conf) ==
  LET sc == validScenes[e.i + 1]
      soloEnd == Max(sc.trimStart,
                     (sc.dur - sc.trimEnd) - ConfiguredDuration(conf))
      cur == e.slots[e.active]
  IN /\ e.op = "frame.trans" =>
          /\ e.arg.effect = ConfiguredKind(conf)
          /\ e.arg.t.d = Max(1, ConfiguredDuration(conf))
     /\ e.op = "frame.solo" => e.arg < soloEnd
     /\ e.op = "rec.pause" => (cur.pos >= soloEnd \/ cur.paused)

\* C14 (as stated): the transition used at the boundary between clips i and
\* i+1 is the one configured on clip i, the outgoing clip.
C14_Original ==
  \A k \in 1..Len(log) :
    log[k].i + 1 < Len(validScenes) =>
      BoundaryUses(log[k], validScenes[log[k].i + 1])

\* C14 (amended): the transition used at the boundary between clips i and
\* i+1 is the one configured on clip i+1, the incoming clip.
C14_BoundaryUsesIncomingTransition ==
  \A k \in 1..Len(log) :
    log[k].i + 1 < Len(validScenes) =>
      BoundaryUses(log[k], validScenes[log[k].i + 2])

\* a frame of a transition into a clip whose transition differs from the
\* outgoing clip's
C14_Witness ==
  \E k \in 1..Len(log) :
    /\ log[k].op = "frame.trans"
    /\ ConfiguredKind(validScenes[log[k].i + 1]) = "fade"
    /\ ConfiguredKind(validScenes[log[k].i + 2]) = "none"


\* the call of drawSolo logged at position k drew a frame
SoloFrameDrawn(k) == k < Len(log) /\ log[k + 1].op = "frame.solo"

\* the clip a call of drawSolo saw was playing, before the position soloEnd
SoloRuns(e, soloEnd) ==
  LET cur == e.slots[e.active]
  IN ~cur.paused /\ cur.pos < validScenes[e.i + 1].dur /\ cur.pos < soloEnd

\* nativeEnd = nativeDuration - trimEnd, of the clip a log entry is about
NativeEnd(e) == validScenes[e.i + 1].dur - validScenes[e.i + 1].trimEnd

\* the log entry is about a clip that has a next clip
EntryHasNext(e) == e.i + 1 < Len(validScenes)

\* the duration of the transition that follows the clip of a log entry (the
\* one configured on the next clip), 0 for the last clip
EntryTransitionDuration(e) ==
  IF EntryHasNext(e) THEN ConfiguredDuration(validScenes[e.i + 2]) ELSE 0

\* C15 (as stated): for every clip the solo phase renders up to
\* soloEnd = max(trimStart, nativeEnd - transitionDuration), and up to
\* nativeEnd when no transition follows the clip (last clip, or kind none),
\* for all trims.
C15_Original ==
  \A k \in 1..Len(log) :
    log[k].op = "tick.solo" =>
      LET e == log[k]
          soloEnd == Max(validScenes[e.i + 1].trimStart,
                         NativeEnd(e) - EntryTransitionDuration(e))
      IN /\ SoloFrameDrawn(k) <=> SoloRuns(e, soloEnd)
         /\ EntryTransitionDuration(e) = 0 =>
              (SoloFrameDrawn(k) <=> SoloRuns(e, NativeEnd(e)))

\* C15 (amended): for every clip that has a next clip the solo phase renders
\* up to soloEnd = max(trimStart, nativeEnd - transitionDuration), with
\* transitionDuration 0 for kind none; for the last clip it renders up to
\* nativeEnd.
C15_SoloEnd ==
  \A k \in 1..Len(log) :
    log[k].op = "tick.solo" =>
      LET e == log[k]
          soloEnd == IF EntryHasNext(e)
                     THEN Max(validScenes[e.i + 1].trimStart,
                              NativeEnd(e) - EntryTransitionDuration(e))
                     ELSE NativeEnd(e)
      IN SoloFrameDrawn(k) <=> SoloRuns(e, soloEnd)

\* a frame of a clip that is followed by a cut, drawn past nativeEnd
C15_Witness ==
  \E k \in 1..Len(log) :
    /\ log[k].op = "tick.solo"
    /\ SoloFrameDrawn(k)
    /\ EntryHasNext(log[k])
    /\ EntryTransitionDuration(log[k]) = 0
    /\ log[k].slots[log[k].active].pos >= NativeEnd(log[k])


\* soloEnd of the clip a log entry is about, a clip that has a next clip
EntrySoloEnd(e) ==
  Max(validScenes[e.i + 1].trimStart,
      NativeEnd(e) - EntryTransitionDuration(e))

\* C16 (as stated): for a clip that has a next clip, the standby load and
\* the transition begin only after the clip's position has reached soloEnd;
\* the solo phase ends for no other reason.
C16_Original ==
  \A k \in 1..Len(log) :
    log[k].op = "rec.pause" =>
      log[k].slots[log[k].active].pos >= EntrySoloEnd(log[k])

\* C16 (amended): for a clip that has a next clip, the standby load and the
\* transition begin only after the clip's position has reached soloEnd or
\* the clip has stopped playing (its element is paused or at the end of its
\* media); the solo phase ends for no other reason.
C16_SoloEndsAtSoloEndOrStopped ==
  \A k \in 1..Len(log) :
    log[k].op = "rec.pause" =>
      LET cur == log[k].slots[log[k].active]
      IN \/ cur.pos >= EntrySoloEnd(log[k])
         \/ cur.paused
         \/ cur.pos >= validScenes[log[k].i + 1].dur

\* the solo phase of a clip whose trimStart lies past the end of its media
\* ends with the clip stopped before soloEnd
C16_Witness ==
  \E k \in 1..Len(log) :
    /\ log[k].op = "rec.pause"
    /\ log[k].slots[log[k].active].paused
    /\ log[k].slots[log[k].active].pos < EntrySoloEnd(log[k])


\* C17: a transition ends exactly at the call of drawTrans that finds t = 1:
\* that call is followed, in this order and within the same step, by the
\* pause of the outgoing slot, the reset of both gains to 1 and the swap of
\* the active slot, and only then by the first call of drawSolo for the next
\* clip; a call that finds t < 1 draws a frame and leaves the transition
\* running.
C17_TransitionEndsAtOne ==
  \A k \in 1..Len(log) :
    /\ log[k].op = "tick.trans" =>
         LET t == log[k].arg
             a == log[k].active
         IN IF t.n >= t.d
            THEN /\ k + 4 <= Len(log)
                 /\ log[k + 1].op = "video.pause" /\ log[k + 1].arg = a
                 /\ log[k + 2].op = "gain.reset"
                 /\ log[k + 2].slots[a].paused
                 /\ log[k + 3].op = "swap"
                 /\ log[k + 3].active = a
                 /\ \A s \in 0..1 : log[k + 3].slots[s].gain = One
                 /\ log[k + 4].op = "tick.solo"
                 /\ log[k + 4].active = 1 - a
                 /\ log[k + 4].i = log[k].i + 1
                 /\ log[k + 4].slots[a].paused
                 /\ \A s \in 0..1 : log[k + 4].slots[s].gain = One
                 /\ \A j \in 1..(k + 4) : log[j].op # "frame.solo"
            ELSE /\ Len(log) = k + 1
                 /\ log[k + 1].op = "frame.trans"
                 /\ pc = "trans"
                 /\ activeSlotIndex = a
                 /\ i = log[k].i
    /\ log[k].op = "swap" =>
         /\ k > 3
         /\ log[k - 3].op = "tick.trans"
         /\ log[k - 3].arg.n >= log[k - 3].arg.d

\* a transition has ended in the last step, the outgoing clip was still
\* playing when it did, and the next clip has rendered a frame of its solo
\* phase
C17_Witness ==
  \E k \in 1..Len(log) :
    /\ log[k].op = "swap"
    /\ ~log[k - 2].slots[log[k].active].paused
    /\ HasOp(log, "frame.solo")


\* the fraction g lies in [0, 1]
InUnitInterval(g) == g.d > 0 /\ 0 <= g.n /\ g.n <= g.d

\* C18: the gain of each slot lies in [0, 1], in every state and at every
\* point inside a step, whatever the transition duration and the position
\* of the incoming clip.
C18_GainsInUnitInterval ==
  /\ \A s \in 0..1 : InUnitInterval(slots[s].gain)
  /\ \A k \in 1..Len(log) :
       \A s \in 0..1 : InUnitInterval(log[k].slots[s].gain)

\* a frame of a transition of duration zero, drawn while the incoming clip
\* is before its seek target
C18_Witness ==
  \E k \in 1..Len(log) :
    /\ log[k].op = "frame.trans"
    /\ ConfiguredDuration(validScenes[log[k].i + 2]) = 0
    /\ log[k].slots[1 - log[k].active].pos
         < validScenes[log[k].i + 2].trimStart


\* the fractions x and y are equal
EqFrac(x, y) == x.n * y.d = y.n * x.d

\* the gains of the slots in sl are 1 - t for slot a and t for the other
GainsAre(sl, a, t) ==
  /\ EqFrac(sl[a].gain, [n |-> t.d - t.n, d |-> t.d])
  /\ EqFrac(sl[1 - a].gain, t)

\* C19 (as stated): every call of drawTrans leaves the outgoing gain at
\* 1 - t and the incoming gain at t for the t it computed, the call that
\* finds t = 1 included, which applies the gains (0, 1).
C19_Original ==
  \A k \in 1..Len(log) :
    log[k].op = "tick.trans" =>
      GainsAre(log[k + 1].slots, log[k].active, log[k].arg)

\* C19 (amended): every call of drawTrans that finds t < 1 leaves the
\* outgoing gain at 1 - t and the incoming gain at t, so the two sum to 1;
\* the call that finds t = 1 writes no gain, and both gains are then reset
\* to 1.
C19_GainsFollowT ==
  \A k \in 1..Len(log) :
    /\ log[k].op = "frame.trans" =>
         /\ log[k].arg.t.n < log[k].arg.t.d
         /\ GainsAre(log[k].slots, log[k].active, log[k].arg.t)
         /\ GainsAre(slots, activeSlotIndex, log[k].arg.t)
    /\ (log[k].op = "tick.trans" /\ log[k].arg.n >= log[k].arg.d) =>
         /\ \A s \in 0..1 : log[k + 1].slots[s].gain = log[k].slots[s].gain
         /\ \A s \in 0..1 : log[k + 3].slots[s].gain = One

\* a frame of a transition drawn half-way through a fade
C19_Witness ==
  \E k \in 1..Len(log) :
    /\ log[k].op = "frame.trans"
    /\ log[k].arg.t = [n |-> 1, d |-> 2]


\* a frame was rendered during the last step
FrameRendered == HasOp(log, "frame.solo") \/ HasOp(log, "frame.trans")

\* C20: with background music configured, play() is called on it once,
\* before any clip is bound to a slot and so before any frame is rendered,
\* and pause() once, in the step that ends the loop after the last clip; it
\* is neither paused nor played again at a clip boundary or while the
\* recorder is paused, and a stitch that completes has done both.
C20_MusicStartedAndStoppedOnce ==
  bgMusic = "track" =>
    /\ bgMusicEl.plays <= 1 /\ bgMusicEl.pauses <= 1
    /\ FrameRendered => bgMusicEl.plays = 1
    /\ \A k \in 1..Len(log) :
         /\ log[k].op = "music.play" =>
              /\ bgMusicEl.plays = 1
              /\ \A s \in 0..1 : log[k].slots[s].src = 0
         /\ log[k].op = "music.pause" =>
              /\ bgMusicEl.pauses = 1
              /\ log[k].i = Len(validScenes)
              /\ log[k].rec = "inactive"
         /\ log[k].op \in {"rec.pause", "rec.resume", "swap"} =>
              /\ bgMusicEl.plays = 1
              /\ \A j \in 1..Len(log) :
                   /\ log[j].op = "music.play" => j < k
                   /\ log[j].op = "music.pause" => j > k
    /\ recorder = "paused" => (bgMusicEl.plays = 1 /\ bgMusicEl.pauses = 0)
    /\ bgMusicEl.pauses = 1 =>
         /\ bgMusicEl.plays = 1
         /\ i = Len(validScenes)
         /\ pc \in {"await_stop", "done"}
    /\ outcome = "resolved" =>
         (bgMusicEl.plays = 1 /\ bgMusicEl.pauses = 1)
    /\ bgMusicEl.state = "playing" <=>
         (bgMusicEl.plays = 1 /\ bgMusicEl.pauses = 0
          /\ bgMusicEl.state \notin {"created", "none"})

\* a stitch of two clips with music has completed
C20_Witness ==
  /\ bgMusic = "track"
  /\ outcome = "resolved"
  /\ Len(validScenes) = 2
  /\ bgMusicEl.state = "paused"


\* C21: the gain of the background music is set in the setup step only, to
\* the configured volume, and has that value in every later state: after
\* every solo tick, transition tick, gain reset and slot swap.
C21_MusicGainFixed ==
  /\ bgMusicEl.state # "none" => bgMusicEl.gain = MusicVolume
  /\ \A k \in 1..Len(log) :
       log[k].op = "music.gain" =>
         (pc = "preload" /\ Len(log) = 1 /\ log[k].arg = MusicVolume)

\* a transition with music has ended: its gains were reset and the slots
\* swapped
C21_Witness ==
  /\ bgMusic = "track"
  /\ HasOp(log, "gain.reset")
  /\ HasOp(log, "swap")
  /\ bgMusicEl.gain = MusicVolume


\* the timeline is one clip whose trims leave part of it
SingleTrimmedClip ==
  /\ Len(validScenes) = 1
  /\ validScenes[1].trimStart + validScenes[1].trimEnd < validScenes[1].dur

\* C22: for a timeline of one clip with trimStart + trimEnd < nativeDuration
\* the frames rendered cover the media from trimStart to nativeEnd: playback
\* starts at trimStart, every frame is drawn while the recorder is recording
\* at a position in [trimStart, nativeEnd), the call of drawSolo that draws
\* no frame finds the position at or past nativeEnd and finalizes, and the
\* recorder is never paused or resumed.
C22_SingleClipRenderedSpan ==
  SingleTrimmedClip =>
    LET sc == validScenes[1]
    IN /\ recorder # "paused"
       /\ pc = "await_first_play" => slots[0].pos = sc.trimStart
       /\ \A k \in 1..Len(log) :
            /\ log[k].op \notin {"rec.pause", "rec.resume", "frame.trans"}
            /\ log[k].rec # "paused"
            /\ log[k].op = "frame.solo" =>
                 /\ log[k].rec = "recording"
                 /\ sc.trimStart <= log[k].arg
                 /\ log[k].arg < sc.dur - sc.trimEnd
            /\ (log[k].op = "tick.solo" /\ ~SoloFrameDrawn(k)) =>
                 /\ log[k].arg >= sc.dur - sc.trimEnd
                 /\ HasOp(log, "rec.stop")

\* a single clip trimmed at its end has been rendered to its nativeEnd and
\* the stitch has completed
C22_Witness ==
  /\ SingleTrimmedClip
  /\ validScenes[1].trimEnd > 0
  /\ outcome = "resolved"


\* what is left of a scene's media between its trims
TrimmedLength(sc) == sc.dur - sc.trimStart - sc.trimEnd

\* the log entry is about a clip joined to the next one by a transition of
\* positive duration that fits into the trimmed length of both clips
EntryJoinedByTransition(e) ==
  /\ EntryHasNext(e)
  /\ EntryTransitionDuration(e) > 0
  /\ TrimmedLength(validScenes[e.i + 1]) >= EntryTransitionDuration(e)
  /\ TrimmedLength(validScenes[e.i + 2]) >= EntryTransitionDuration(e)

\* C23 (as stated): for two clips joined by a transition of duration d, the
\* recorded interval in which both clips are rendered and audible together
\* has length d in the incoming clip's playback time: recording resumes with
\* the incoming clip at its trimStart, every frame of the transition is
\* drawn with both clips playing and the incoming clip less than d past its
\* trimStart, and the transition ends with the incoming clip d past it.
C23_Original ==
  \A k \in 1..Len(log) :
    EntryJoinedByTransition(log[k]) =>
      LET e == log[k]
          d == EntryTransitionDuration(e)
          nextStart == validScenes[e.i + 2].trimStart
          out == e.slots[e.active]
          inc == e.slots[1 - e.active]
      IN /\ e.op = "rec.resume" => inc.pos = nextStart
         /\ e.op = "frame.trans" =>
              /\ ~out.paused /\ ~inc.paused
              /\ nextStart <= inc.pos /\ inc.pos < nextStart + d
         /\ (e.op = "tick.trans" /\ e.arg.n >= e.arg.d) =>
              inc.pos >= nextStart + d


\* what a log entry shows of an output of 23 seconds made of three clips of
\* eight: clip 1 alone up to second 7, one second of fade in which clip 2
\* plays its first second, clip 2 alone from second 1 to its end at 8, a
\* cut, and clip 3 up to its end at 8 (7 + 1 + 7 + 8 = 23)
FadeThenCut(e) ==
  LET cur == e.slots[e.active]
      inc == e.slots[1 - e.active]
  IN /\ (e.op = "frame.solo" /\ e.i = 0) => e.arg < 7
     /\ (e.op = "rec.pause" /\ e.i = 0) => cur.pos >= 7
     /\ (e.op = "frame.trans" /\ e.i = 0) =>
          (e.arg.effect = "fade" /\ inc.pos < 1)
     /\ (e.op = "frame.solo" /\ e.i = 1) => (1 <= e.arg /\ e.arg < 8)
     /\ (e.op = "rec.pause" /\ e.i = 1) => cur.pos >= 8
     /\ (e.op = "frame.trans" /\ e.i = 1) =>
          (e.arg.effect = "none" /\ inc.pos < 1)
     /\ (e.op = "frame.solo" /\ e.i = 2) => e.arg < 8
     /\ (e.op = "rec.stop" /\ e.i = 3) => cur.pos >= 8

\* C24 (as stated): three untrimmed clips of eight seconds, the first
\* configured with a fade of one second and the second with kind none, are
\* recorded as 23 seconds: a fade of one second between clips 1 and 2 and a
\* cut between clips 2 and 3.
C24_Original ==
  scenes = FadeOnFirstClip => \A k \in 1..Len(log) : FadeThenCut(log[k])

\* C24 (amended): three untrimmed clips of eight seconds, the second
\* configured with a fade of one second and the third with kind none, are
\* recorded as 23 seconds: a fade of one second between clips 1 and 2 and a
\* cut between clips 2 and 3.
C24_FadeOnIncomingClip ==
  scenes = FadeOnSecondClip => \A k \in 1..Len(log) : FadeThenCut(log[k])

\* the stitch of the timeline with the fade on the second clip has completed
C24_Witness ==
  /\ scenes = FadeOnSecondClip
  /\ outcome = "resolved"
  /\ i = 3


\* "Est. Total Duration", one scene's term, in half seconds (twice the
\* value, so that transD * 0.5 stays an integer):
\* Math.max(0, rawDur - trimS - trimE - (transD * 0.5))
EstimatedContribution2(sc) ==
  LET rawDur == IF sc.dur = 0 THEN DefaultDurationSeconds ELSE sc.dur
      transD == IF sc.transition.type # "none" /\ sc.transition.duration # 0
                THEN sc.transition.duration
                ELSE 0
  IN Max(0, 2 * (rawDur - sc.trimStart - sc.trimEnd) - transD)

RECURSIVE EstimatedTotal2(_)
\* currentProject.scenes.reduce((acc, s) => acc + actual, 0), in half seconds
EstimatedTotal2(scs) ==
  IF scs = <<>> THEN 0
  ELSE EstimatedContribution2(Head(scs)) + EstimatedTotal2(Tail(scs))

\* C25 (as stated): in the duration estimate a transition of duration d that
\* joins two clips is counted once across the pair: at the boundary of a
\* timeline of two clips the estimated total is the two trimmed lengths
\* minus the d the engine uses at that boundary.
C25_Original ==
  \A k \in 1..Len(log) :
    (/\ log[k].op = "rec.pause"
     /\ Len(scenes) = 2
     /\ validScenes = scenes
     /\ EntryJoinedByTransition(log[k]))
    => EstimatedTotal2(scenes) =
         2 * (TrimmedLength(scenes[1]) + TrimmedLength(scenes[2])
              - EntryTransitionDuration(log[k]))


\* a + b and a - b of fractions, a <= b
FracAdd(a, b) == [n |-> a.n * b.d + b.n * a.d, d |-> a.d * b.d]

FracSub(a, b) == [n |-> a.n * b.d - b.n * a.d, d |-> a.d * b.d]

FracLe(a, b) == a.n * b.d <= b.n * a.d

\* the part of a canvas of size c that a clip rectangle leaves drawable:
\* the rectangle cut to the canvas, from x0 to x1 and from y0 to y1
Revealed(r, c) ==
  LET left == [n |-> 0, d |-> 1]
      right == [n |-> c.width, d |-> 1]
      far == FracAdd(r.x, r.w)
  IN [x0 |-> IF FracLe(r.x, left) THEN left ELSE r.x,
      x1 |-> IF FracLe(right, far) THEN right ELSE far,
      y0 |-> Max(0, r.y),
      y1 |-> Min(c.height, r.y + r.h)]

\* the mirror image of a region about the vertical centre line of canvas c
Mirror(g, c) ==
  LET right == [n |-> c.width, d |-> 1]
  IN [x0 |-> FracSub(right, g.x1), x1 |-> FracSub(right, g.x0),
      y0 |-> g.y0, y1 |-> g.y1]

SameRegion(g, h) ==
  /\ EqFrac(g.x0, h.x0)
  /\ EqFrac(g.x1, h.x1)
  /\ g.y0 = h.y0
  /\ g.y1 = h.y1

\* [width * (1 - t), width] over the full height
LeftReveal(t, c) ==
  [x0 |-> [n |-> c.width * (t.d - t.n), d |-> t.d],
   x1 |-> [n |-> c.width, d |-> 1], y0 |-> 0, y1 |-> c.height]

\* [0, width * t] over the full height
RightReveal(t, c) ==
  [x0 |-> [n |-> 0, d |-> 1],
   x1 |-> [n |-> c.width * t.n, d |-> t.d], y0 |-> 0, y1 |-> c.height]

\* C26: for every t of a rendered wipe frame and every canvas size, the
\* region a wipe to the left reveals is [width * (1 - t), width], the region
\* a wipe to the right reveals is [0, width * t], both over the full height,
\* and each is the horizontal mirror image of the other for the same t.
C26_WipesAreMirrored ==
  \A k \in 1..Len(log) : \A c \in CanvasSizes :
    (log[k].op = "frame.trans"
       /\ log[k].arg.effect \in {"wipe_left", "wipe_right"})
    => LET t == log[k].arg.t
           drawn == Revealed(log[k].arg.clip[c][1], c)
           other == IF log[k].arg.effect = "wipe_left"
                    THEN Revealed(ClipPath("wipe_right", t, c)[1], c)
                    ELSE Revealed(ClipPath("wipe_left", t, c)[1], c)
       IN /\ Len(log[k].arg.clip[c]) = 1
          /\ SameRegion(drawn, IF log[k].arg.effect = "wipe_left"
                               THEN LeftReveal(t, c) ELSE RightReveal(t, c))
          /\ SameRegion(drawn, Mirror(other, c))

\* a frame of a wipe to the left is rendered a quarter of the way through
C26_Witness ==
  \E k \in 1..Len(log) :
    /\ log[k].op = "frame.trans"
    /\ log[k].arg.effect = "wipe_left"
    /\ EqFrac(log[k].arg.t, [n |-> 1, d |-> 4])


\* C27 (as stated): any two consecutive invocations of the progress
\* callback are at least about 100 ms apart, those at the phase boundaries
\* included: a step invokes the callback only when more than ThrottleMs
\* have passed since the last throttled invocation, which is the latest
\* moment the previous invocation can have been made.
C27_Original ==
  [][HasOp(log', "progress") => elapsed > ThrottleMs]_vars


\* percent * PctScale(N) of 100 * k / N
ClipsPct(k) == 100 * 10 * k

\* C28 (as stated): every percent passed to the progress callback is
\* 100 * k / N for an integer k of 0..N.
C28_Original ==
  \A k \in 1..Len(log) :
    log[k].op = "progress"
    => \E c \in 0..Len(validScenes) : log[k].arg = ClipsPct(c)

\* C28 (amended): every percent passed to the progress callback is
\* 100 * i / N for the 0-based index i of the clip being processed, or
\* 100 * (i + 0.9) / N when the transition out of clip i is prepared, or
\* 100 at finalization; none depends on the position inside a clip.
C28_PercentPerClipOrBoundary ==
  \A k \in 1..Len(log) :
    log[k].op = "progress"
    => \/ log[k].arg = ClipsPct(log[k].i)
       \/ log[k].arg = ClipsPct(Len(validScenes))
       \/ /\ EntryHasNext(log[k])
          /\ log[k].rec = "paused"
          /\ 10 * log[k].arg = 10 * ClipsPct(log[k].i) + 9 * ClipsPct(1)

\* the callback is invoked for the preparation of a transition
C28_Witness ==
  \E k \in 1..Len(log) :
    /\ log[k].op = "progress"
    /\ EntryHasNext(log[k])
    /\ log[k].arg > ClipsPct(log[k].i)
    /\ log[k].arg < ClipsPct(log[k].i + 1)


\* the solo phase of the clip in the current slot is over: drawSolo would
\* resolve
SoloOver(S) ==
  \/ CurrentSlot(S).paused
  \/ Ended(S, CurrentSlot(S))
  \/ CurrentSlot(S).pos >= SoloEndTime(S)

\* the highest timeline index (1-based) bound to a slot so far
LastLoaded == Max(slots[0].src, slots[1].src)

\* C29: clips are processed in timeline order. A step binds a clip to a slot
\* only as the clip that follows the last one bound: the first clip into
\* slot 0 at the start, and clip i+1 into the standby slot, in a step in
\* which the recorder was paused for clip i and after which the solo phase
\* of clip i, in the current slot, is over. So no clip is loaded twice and
\* none is skipped, and a stitch that completes has loaded them all.
C29_LoadsInTimelineOrder ==
  /\ [][\A s \in 0..1 :
          slots'[s].src # slots[s].src
          => /\ slots'[s].src = LastLoaded + 1
             /\ slots'[s].src <= Len(validScenes')
             /\ \/ slots'[s].src = 1 /\ s = 0 /\ i' = 0
                \/ /\ slots'[s].src = i' + 2
                   /\ s = 1 - activeSlotIndex'
                   /\ slots'[activeSlotIndex'].src = i' + 1
                   /\ SoloOver(Cur)'
                   /\ \E k \in 1..Len(log') :
                        log'[k].op = "rec.pause" /\ log'[k].i = i'
                   /\ \A k \in 1..Len(log') :
                        log'[k].op = "frame.solo" => log'[k].i < i']_vars
  /\ [](outcome = "resolved" => LastLoaded = Len(validScenes))

\* the third clip of a timeline is bound to the slot the first clip played in
C29_Witness ==
  /\ Len(validScenes) = 3
  /\ i = 1
  /\ activeSlotIndex = 1
  /\ slots[0].src = 3
  /\ slots[1].src = 2
  /\ slots[0].ready = "loading"


RECURSIVE Completed(_)
\* the scenes of a list whose status is completed, in the order of the list
Completed(scs) ==
  IF scs = <<>> THEN <<>>
  ELSE IF Head(scs).status = "completed"
       THEN <<Head(scs)>> \o Completed(Tail(scs))
       ELSE Completed(Tail(scs))

RECURSIVE CompletedWithVideo(_)
\* the scenes of a list that are completed and have a video URL, in the
\* order of the list
CompletedWithVideo(scs) ==
  IF scs = <<>> THEN <<>>
  ELSE IF Head(scs).status = "completed" /\ Head(scs).hasUrl
       THEN <<Head(scs)>> \o CompletedWithVideo(Tail(scs))
       ELSE CompletedWithVideo(Tail(scs))

\* C30 (as stated): the timeline of a stitch is exactly the input scenes
\* whose status is completed, in input order.
C30_Original ==
  pc # "start" => validScenes = Completed(scenes)

\* C30 (amended): the timeline of a stitch is exactly the input scenes that
\* are completed and have a video URL, in input order; a slot is only ever
\* bound to a scene of the timeline, so never to a scene of another status;
\* the input list is not modified.
C30_TimelineIsCompletedWithVideo ==
  /\ [](pc # "start" => validScenes = CompletedWithVideo(scenes))
  /\ [](\A s \in 0..1 :
          slots[s].src # 0
          => /\ slots[s].src \in 1..Len(validScenes)
             /\ validScenes[slots[s].src].status = "completed"
             /\ validScenes[slots[s].src].hasUrl)
  /\ [][scenes' = scenes]_vars

\* a stitch has completed on an input of two scenes of which the first,
\* completed but without a video URL, was left out of the timeline
C30_Witness ==
  /\ Len(scenes) = 2
  /\ scenes[1].status = "completed"
  /\ ~scenes[1].hasUrl
  /\ validScenes = <<scenes[2]>>
  /\ slots[0].src = 1
  /\ outcome = "resolved"

\* the loop is at the last clip of the timeline, or past it
AtLastClip == Len(validScenes) >= 1 /\ i + 1 >= Len(validScenes)

\* C31: the last clip of the timeline has no transition phase. While the
\* loop is at the last clip the recorder is not paused, the standby slot
\* holds nothing but the clip before the last, and the active slot is the
\* one the last clip was swapped into; no recorder.pause() and no swap is
\* made for it, and recorder.stop() at finalization finds the active slot
\* paused and the recorder recording.
C31_NoTransitionAfterLastClip ==
  /\ AtLastClip
     => /\ recorder # "paused"
        /\ pc \notin {"await_next_load", "await_next_seek", "await_next_play",
                      "await_cur_play", "trans"}
        /\ slots[0].src <= Len(validScenes)
        /\ slots[1].src <= Len(validScenes)
        /\ slots[activeSlotIndex].src \in {0, Len(validScenes)}
        /\ slots[1 - activeSlotIndex].src \in {0, Len(validScenes) - 1}
  /\ \A k \in 1..Len(log) :
       /\ log[k].op \in {"rec.pause", "rec.resume", "swap", "tick.trans",
                         "frame.trans"}
          => EntryHasNext(log[k])
       /\ (log[k].op = "rec.stop" /\ log[k].i = Len(validScenes))
          => /\ log[k].slots[log[k].active].paused
             /\ log[k].rec = "recording"

\* finalization after a last clip that was stopped before the end of its
\* media, the second clip of two
C31_Witness ==
  /\ Len(validScenes) = 2
  /\ outcome = "resolved"
  /\ slots[activeSlotIndex].src = 2
  /\ slots[activeSlotIndex].pos < validScenes[2].dur
  /\ slots[activeSlotIndex].paused

\* C32: slot roles alternate. The active slot index is 0 or 1, so the
\* standby slot 1 - activeSlotIndex is the other one; while the loop is at
\* clip i the active slot is i mod 2; a slot only holds clips of its own
\* parity; and every frame is drawn with clip i in slot i mod 2 and, in a
\* transition, clip i + 1 in the other slot.
C32_SlotRolesAlternate ==
  /\ activeSlotIndex \in {0, 1}
  /\ 1 - activeSlotIndex \in {0, 1} \ {activeSlotIndex}
  /\ i < Len(validScenes) => activeSlotIndex = i % 2
  /\ (Len(validScenes) >= 1 /\ i = Len(validScenes))
     => activeSlotIndex = (i - 1) % 2
  /\ \A s \in 0..1 : slots[s].src # 0 => s = (slots[s].src - 1) % 2
  /\ \A k \in 1..Len(log) :
       LET e == log[k]
       IN /\ e.op \in {"frame.solo", "frame.trans"}
             => /\ e.active = e.i % 2
                /\ e.slots[e.active].src = e.i + 1
          /\ e.op = "frame.trans"
             => e.slots[1 - e.active].src = e.i + 2

\* a frame of the third clip is drawn from slot 0, which played the first
C32_Witness ==
  \E k \in 1..Len(log) :
    /\ log[k].op = "frame.solo"
    /\ log[k].i = 2
    /\ log[k].active = 0
    /\ log[k].slots[0].src = 3

\* the kinds drawTrans has an effect for
RecognizedEffects ==
  {"fade", "wipe_left", "wipe_right", "slide_left", "slide_right"}

\* the log entry is about a clip whose next clip is configured with kind
\* none, with no transition, or with a kind drawTrans does not know
EntryCutsToNext(e) ==
  /\ EntryHasNext(e)
  /\ ConfiguredKind(validScenes[e.i + 2]) \notin RecognizedEffects

\* C33 (as stated): when a next clip exists and the kind of the boundary is
\* none, missing or unrecognized, the boundary is a hard cut: no frame is
\* drawn from both slots, the solo phase of the outgoing clip runs to the
\* end of the clip (it gives way only at nativeEnd, or with the clip
\* stopped), and frames of the boundary are drawn from the incoming clip
\* alone.
C33_Original ==
  \A k \in 1..Len(log) :
    EntryCutsToNext(log[k])
    => /\ log[k].op = "frame.trans" => log[k].arg.drawn = <<"next">>
       /\ log[k].op = "rec.pause"
          => \/ log[k].slots[log[k].active].pos >= NativeEnd(log[k])
             \/ log[k].slots[log[k].active].paused

\* the same for the kinds none and missing only
C33_CutForNoneOrMissing ==
  \A k \in 1..Len(log) :
    (EntryCutsToNext(log[k])
       /\ ConfiguredKind(validScenes[log[k].i + 2]) = "none")
    => /\ log[k].op = "frame.trans" => log[k].arg.drawn = <<"next">>
       /\ log[k].op = "rec.pause"
          => \/ log[k].slots[log[k].active].pos >= NativeEnd(log[k])
             \/ log[k].slots[log[k].active].paused

\* a timeline with every negative trim replaced by zero
ZeroedNegativeTrims(scs) ==
  [k \in 1..Len(scs) |->
     [scs[k] EXCEPT !.trimStart = Max(0, @), !.trimEnd = Max(0, @)]]

\* the program state a log entry saw, and the same state of a stitch whose
\* negative trims are zero
SeenBy(e) ==
  [Cur EXCEPT !.i = e.i, !.activeSlotIndex = e.active, !.slots = e.slots]

SeenWithZeroedTrims(e) ==
  [SeenBy(e) EXCEPT !.validScenes = ZeroedNegativeTrims(validScenes)]

\* C34 (as stated): a negative trimStart or trimEnd is treated as zero. The
\* seek of a clip lands where a trim of zero puts it, every call of drawSolo
\* decides to stop or to go on as it would with the negative trims zeroed,
\* and every call of drawTrans computes the t it would compute with them
\* zeroed.
C34_Original ==
  /\ pc = "await_first_seek"
     => slots[activeSlotIndex].pos =
          Max(0, ZeroedNegativeTrims(validScenes)[i + 1].trimStart)
  /\ pc = "await_next_seek"
     => slots[1 - activeSlotIndex].pos =
          Max(0, ZeroedNegativeTrims(validScenes)[i + 2].trimStart)
  /\ \A k \in 1..Len(log) :
       /\ log[k].op = "tick.solo"
          => (log[k].arg >= SoloEndTime(SeenBy(log[k])))
               = (log[k].arg >= SoloEndTime(SeenWithZeroedTrims(log[k])))
       /\ log[k].op = "tick.trans"
          => EqFrac(log[k].arg, TransT(SeenWithZeroedTrims(log[k])))

\* the same for timelines whose trimStart values are not negative
C34_NegativeTrimEndIsZero ==
  (\A k \in 1..Len(scenes) : scenes[k].trimStart >= 0) => C34_Original

\* the clip of a log entry has trims that leave nothing of it
EntryWindowEmpty(e) ==
  /\ e.i < Len(validScenes)
  /\ TrimmedLength(validScenes[e.i + 1]) <= 0

\* C35 (as stated): a clip with trimStart + trimEnd >= nativeDuration is not
\* rejected. No stitch fails before its try block for a reason other than an
\* empty timeline, a missing canvas context or the recorder's constructor,
\* so none is rejected for its trims; and no solo frame is drawn for such a
\* clip.
C35_Original ==
  /\ (outcome = "rejected" /\ errorMsg # "Stitching failed.")
     => failure \in {"empty", "canvas", "recorder"}
  /\ \A k \in 1..Len(log) :
       log[k].op = "frame.solo" => ~EntryWindowEmpty(log[k])

\* position p lies in the trimmed window of the scene sc
InWindow(p, sc) == sc.trimStart <= p /\ p <= sc.dur - sc.trimEnd

\* C36 (as stated): every frame drawn of a clip, in its solo phase or in a
\* transition, shows a position inside the clip's trimmed window
\* [trimStart, nativeDuration - trimEnd], and the position of a clip that
\* has started to play never goes backwards, whatever time the standby load
\* takes.
C36_Original ==
  /\ [](\A k \in 1..Len(log) :
          LET e == log[k]
          IN /\ e.op = "frame.solo" => InWindow(e.arg, validScenes[e.i + 1])
             /\ e.op = "frame.trans"
                => /\ InWindow(e.slots[1 - e.active].pos,
                               validScenes[e.i + 2])
                   /\ "current" \in {e.arg.drawn[j] :
                                       j \in 1..Len(e.arg.drawn)}
                      => InWindow(e.slots[e.active].pos,
                                  validScenes[e.i + 1]))
  /\ [][\A s \in 0..1 :
          (slots[s].played /\ slots'[s].src = slots[s].src)
          => slots'[s].pos >= slots[s].pos]_vars

\* some part of the finally block has run
CleanupRun ==
  \/ audioCtx = "closed"
  \/ canvas = "removed"
  \/ \E s \in 0..1 : slots[s].removed \/ (slots[s].created /\ ~slots[s].connected)

\* C37 (as stated): in a stitch that does not fail, the cleanup (closing the
\* audio context, disconnecting and removing the slots, removing the canvas)
\* runs only after the recorder's stop event has fired and the artifact
\* reference has been produced.
C37_Original ==
  (failure = "none" /\ CleanupRun) => (outcome = "resolved" /\ ~stopPending)

\* C38: the recorder has a well-formed lifecycle. start() is called on the
\* new recorder before any clip is bound to a slot, hence once; pause() is
\* called only while it is recording, resume() only while it is paused,
\* stop() only while it is recording; and it is recording at every call of
\* drawSolo or drawTrans that draws a frame, and whenever the engine waits
\* for the next render tick.
C38_RecorderLifecycle ==
  /\ recorder \in {"none", "inactive", "recording", "paused"}
  /\ pc \in {"solo", "trans"} => recorder = "recording"
  /\ \A k \in 1..Len(log) :
       LET e == log[k]
       IN /\ e.op = "rec.start"
             => /\ e.rec = "inactive"
                /\ e.slots[0].src = 0
                /\ e.slots[1].src = 0
          /\ e.op = "rec.pause" => e.rec = "recording"
          /\ e.op = "rec.resume" => e.rec = "paused"
          /\ e.op = "rec.stop" => e.rec = "recording"
          /\ e.op \in {"frame.solo", "frame.trans"} => e.rec = "recording"

\* the recorder is resumed for the second transition of a timeline and a
\* frame of that transition is drawn
C38_Witness ==
  /\ \E k \in 1..Len(log) :
       log[k].op = "rec.resume" /\ log[k].i = 1 /\ log[k].rec = "paused"
  /\ \E k \in 1..Len(log) :
       log[k].op = "frame.trans" /\ log[k].i = 1 /\ log[k].rec = "recording"

\* C39 (as stated): when every awaited media event fires, render ticks keep
\* arriving and playing clips advance to their end, stitchVideos eventually
\* returns an artifact, for all trims and transition durations, a transition
\* longer than what remains of the incoming clip included. The transition
\* loop ends only when t reaches 1, and t grows only with the position of
\* the incoming clip: so while the loop waits for its next tick, the
\* incoming clip is still playing or has taken t to 1.
C39_Original ==
  (pc = "trans" /\ failure = "none")
  => \/ ~NextSlot(Cur).paused
     \/ TransT(Cur).n >= TransT(Cur).d

\* ------------------------------------------------- the editor: generation
\* { ...s, ...updates }
Merge(s, updates) ==
  [f \in DOMAIN s |-> IF f \in DOMAIN updates THEN updates[f] ELSE s[f]]

\* handleUpdateScene(sceneId, updates) of a render whose currentProject has
\* the scenes p: the scenes given to updateProject, which replaces the
\* current project with them
handleUpdateScene(A, p, k, updates) ==
  [A EXCEPT !.project = [j \in DOMAIN p |->
                           IF j = k THEN Merge(p[j], updates) ELSE p[j]]]

\* handleGenerateVideoForScene(sceneId) of a render whose currentProject has
\* the scenes p, up to `await generateSceneVideo(...)`; byBatch is whether
\* handleGenerateAllVideos awaits it
StartGeneration(A, p, k, byBatch) ==
  LET A1 == handleUpdateScene(A, p, k, [status |-> "generating"])
  IN [A1 EXCEPT !.calls = @ \cup {[k |-> k, closure |-> p,
                                   byBatch |-> byBatch]}]

\* the scenes of p from index n on that handleGenerateAllVideos generates
ToGenerate(p, n) ==
  {j \in n..Len(p) : p[j].status \notin {"completed", "generating"}}

\* the loop of handleGenerateAllVideos from the scene at index n of its own
\* currentProject, up to its next await or to its end
BatchStep(A, n) ==
  LET p == A.batch.closure
  IN IF ToGenerate(p, n) = {}
     THEN [A EXCEPT !.batch.state = "finished"]
     ELSE LET j == CHOOSE j \in ToGenerate(p, n) :
                     \A m \in ToGenerate(p, n) : j <= m
          IN [StartGeneration(A, p, j, TRUE)
                EXCEPT !.batch.state = "waiting", !.batch.next = j + 1]

\* the continuation of handleGenerateVideoForScene after its await, with
\* the updates of the try or of the catch branch, and the loop of
\* handleGenerateAllVideos that awaited it
FinishGeneration(A, c, updates) ==
  LET A1 == handleUpdateScene(A, c.closure, c.k, updates)
      A2 == [A1 EXCEPT !.calls = @ \ {c},
                       !.succeeded = IF updates.status = "completed"
                                     THEN @ \cup {c.k} ELSE @ \ {c.k}]
  IN IF c.byBatch THEN BatchStep(A2, A2.batch.next) ELSE A2

\* the scenes a project is opened with
StoredScenes ==
  {[status |-> "pending", hasUrl |-> FALSE],
   [status |-> "error", hasUrl |-> FALSE],
   [status |-> "completed", hasUrl |-> TRUE]}

\* a click on the "Generate Video" button of scene k, which is disabled
\* while the scene is generating
ClickGenerateScene(k) ==
  /\ app.clicks < MaxClicks
  /\ app.project[k].status # "generating"
  /\ app' = StartGeneration([app EXCEPT !.clicks = @ + 1], app.project, k,
                            FALSE)
  /\ UNCHANGED engineVars

\* a click on "Generate All Scenes"
ClickGenerateAll ==
  /\ app.batch.state = "idle"
  /\ app' = BatchStep([app EXCEPT !.batch.closure = app.project], 1)
  /\ UNCHANGED engineVars

\* generateSceneVideo resolves with a video URL
GenerationResolved(c) ==
  /\ c \in app.calls
  /\ app' = FinishGeneration(app, c, [status |-> "completed",
                                      hasUrl |-> TRUE])
  /\ UNCHANGED engineVars

\* generateSceneVideo rejects
GenerationRejected(c) ==
  /\ c \in app.calls
  /\ app' = FinishGeneration(app, c, [status |-> "error"])
  /\ UNCHANGED engineVars

GenerationInit ==
  /\ app \in {[NoApp EXCEPT !.project = p] :
                p \in [1..GenScenes -> StoredScenes]}
  /\ scenes = <<>>
  /\ bgMusic = "undefined"
  /\ pc = "start"
  /\ validScenes = <<>>
  /\ i = 0
  /\ activeSlotIndex = 0
  /\ slots = [k \in 0..1 |-> NoSlot]
  /\ canvas = "none"
  /\ audioCtx = "none"
  /\ bgMusicEl = NoMusicEl
  /\ recorder = "none"
  /\ stopPending = FALSE
  /\ elapsed = ElapsedCap
  /\ lastPct = -1
  /\ log = <<>>
  /\ outcome = "pending"
  /\ errorMsg = ""
  /\ failure = "none"
  /\ originMsg = ""

GenerationNext ==
  \/ \E k \in 1..GenScenes : ClickGenerateScene(k)
  \/ ClickGenerateAll
  \/ \E c \in app.calls : GenerationResolved(c)
  \/ \E c \in app.calls : GenerationRejected(c)

GenerationSpec == GenerationInit /\ [][GenerationNext]_vars

\* no generation request for scene k is in flight
Settled(k) == \A c \in app.calls : c.k # k

\* C40 (as stated): every scene whose generation succeeded is completed and
\* has its video URL in the current project, from the moment its request
\* has finished: during the rest of the batch, or of any interleaving of
\* requests, and after it; an update of another scene does not revert or
\* overwrite what was recorded for it.
C40_Original ==
  \A k \in app.succeeded :
    Settled(k) => (app.project[k].status = "completed" /\ app.project[k].hasUrl)

=============================================================================
